---------------------------- MODULE Spec2Model ----------------------------
(* ETL pipeline of desafio_meli: marketplace fetches (search, currency,    *)
(* bulk items / sellers in batches of 20), flattening of the wire records, *)
(* and loading into the warehouse (client construction with retries,       *)
(* create-table-if-absent, load jobs).                                     *)
(* Strings that the code joins and splits are modelled as sequences of     *)
(* one-character strings, so that ",".join and str.split(',') are real     *)
(* conversions.                                                            *)
EXTENDS Integers, Sequences, FiniteSets, TLC

VARIABLES
  pc,               \* position of the running call (main, or the function under study)
  items_data,       \* Item.items_data: result of fetch_data in Item.__init__
  currencies_data,  \* main: currencies_data
  ids_list,         \* chunk_ids: ids_list of the live generator
  idx,              \* chunk_ids: loop variable i of the live generator
  all_data,         \* fetch_items / fetch_seller: all_items_data / all_sellers_data
  results,          \* main: items_data and sellers_data (return values of the bulk fetches)
  requests,         \* marketplace: bulk GET requests received, in order
  received,         \* wrapper bodies received in bulk responses, per endpoint, in order
  failed,           \* per endpoint: number of the batch that got a non-200 (0 = none)
  attempts,         \* _create_bigquery_client: bigquery.Client() constructions made
  client,           \* DataBase.client is set
  tables,           \* warehouse: tables that exist
  creates,          \* warehouse: create_table requests received, in order
  jobs,             \* warehouse: load jobs received, in order
  error,            \* exception that left the running call ("none" if none)
  trace,            \* main: steps finished so far, in order
  calls,            \* gateway study: create_table_if_not_exists calls made
  ids_in,           \* batching study: the identifiers handed to the caller's join
  chunk_size,       \* batching study: chunk_size
  yielded,          \* batching study: chunks yielded so far
  sale_terms,       \* flattening study: body.sale_terms on the wire
  item_out          \* flattening study: output of get_items_data

vars == <<pc, items_data, currencies_data, ids_list, idx, all_data, results,
          requests, received, failed, attempts, client, tables, creates, jobs,
          error, trace, calls, ids_in, chunk_size, yielded, sale_terms, item_out>>

(***************************************************************************)
(* Bounds                                                                  *)
(***************************************************************************)
MaxResults == 41     \* search results per response: 0..MaxResults (3 batches at 41)
MaxIds == 3          \* batching study: identifiers per input
MaxChunk == 3        \* batching study: chunk sizes 1..MaxChunk
MaxTerms == 3        \* flattening study: entries in sale_terms
MaxCalls == 3        \* gateway study: create_table_if_not_exists calls

(***************************************************************************)
(* Text helpers                                                            *)
(***************************************************************************)
Min(a, b) == IF a < b THEN a ELSE b

Ceil(a, b) == (a + b - 1) \div b

DigitChars == <<"0", "1", "2", "3", "4", "5", "6", "7", "8", "9">>

RECURSIVE str(_)
\* Python str(int) for a non-negative int
str(n) == IF n < 10 THEN <<DigitChars[n + 1]>>
          ELSE str(n \div 10) \o <<DigitChars[(n % 10) + 1]>>

RECURSIVE join(_)
\* ",".join(list)
join(list) == IF list = <<>> THEN <<>>
              ELSE IF Len(list) = 1 THEN list[1]
              ELSE list[1] \o <<",">> \o join(Tail(list))

RECURSIVE split(_)
\* s.split(','): always at least one element, "" gives [""]
split(s) ==
  IF \A p \in 1..Len(s) : s[p] # ","
  THEN <<s>>
  ELSE LET p == CHOOSE q \in 1..Len(s) : s[q] = "," /\ \A r \in 1..(q - 1) : s[r] # ","
       IN <<SubSeq(s, 1, p - 1)>> \o split(SubSeq(s, p + 1, Len(s)))

\* Python slice list[a:b] with 0 <= a
Slice(list, a, b) == SubSeq(list, a + 1, Min(b, Len(list)))

RECURSIVE Concat(_)
Concat(ss) == IF ss = <<>> THEN <<>> ELSE ss[1] \o Concat(Tail(ss))

(***************************************************************************)
(* Item.chunk_ids                                                          *)
(***************************************************************************)
RECURSIVE ChunksFrom(_, _, _)
ChunksFrom(list, i, k) ==
  IF i >= Len(list) THEN <<>>
  ELSE <<Slice(list, i, i + k)>> \o ChunksFrom(list, i + k, k)

\* every chunk the generator yields, in order
chunk_ids(ids_str, k) == ChunksFrom(split(ids_str), 0, k)

(***************************************************************************)
(* utils.py: flattening                                                    *)
(***************************************************************************)
RECURSIVE get_warranties_date_first(_, _)
get_warranties_date_first(item, warranties_data) ==
  IF warranties_data = <<>> THEN item
  ELSE LET warranty == warranties_data[1]
           i1 == IF warranty.id = "WARRANTY_TYPE" /\ "warranty_type" \notin DOMAIN item
                 THEN ("warranty_type" :> warranty.value_name) @@ item ELSE item
           i2 == IF warranty.id = "WARRANTY_TIME" /\ "warranty_time" \notin DOMAIN item
                 THEN ("warranty_time" :> warranty.value_name) @@ i1 ELSE i1
       IN get_warranties_date_first(i2, Tail(warranties_data))

RECURSIVE get_warranties_date(_, _)
\* the dict item after the loop over warranties_data
get_warranties_date(item, warranties_data) ==
  IF warranties_data = <<>> THEN item
  ELSE LET warranty == warranties_data[1]
           i1 == IF warranty.id = "WARRANTY_TYPE"
                 THEN ("warranty_type" :> warranty.value_name) @@ item ELSE item
           i2 == IF warranty.id = "WARRANTY_TIME"
                 THEN ("warranty_time" :> warranty.value_name) @@ i1 ELSE i1
       IN get_warranties_date(i2, Tail(warranties_data))

\* one iteration of the loop of get_items_data
item_record(wire) ==
  LET item == wire.body
      item_data == [category_id |-> item.category_id,
                    price |-> item.price,
                    seller_id |-> item.seller_id,
                    title |-> item.title,
                    currency_id |-> item.currency_id,
                    free_shipping |-> item.shipping.free_shipping,
                    local_pick_up |-> item.shipping.local_pick_up,
                    logistic_type |-> item.shipping.logistic_type,
                    shipping_mode |-> item.shipping.mode]
  IN get_warranties_date(item_data, item.sale_terms)

get_items_data(items) == [j \in 1..Len(items) |-> item_record(items[j])]

get_sellers_data(sellers) ==
  [j \in 1..Len(sellers) |->
     [id |-> sellers[j].body.id,
      qty_sales |-> sellers[j].body.seller_reputation.transactions.total]]


(***************************************************************************)
(* Values shared by the specifications                                     *)
(***************************************************************************)
ChunkSize == 20
max_retries_4 == 3 + 1

max_retries == 3

TableNames == <<"currencies", "items", "sellers">>
TableSet == {TableNames[j] : j \in 1..Len(TableNames)}

BoundedSeq(S, n) == UNION {[1..m -> S] : m \in 0..n}

None == [status |-> "None", rows |-> <<>>]
Unset == [status |-> "unset", rows |-> <<>>]
List(rows) == [status |-> "list", rows |-> rows]

MarketInit ==
  /\ items_data = Unset
  /\ currencies_data = Unset
  /\ ids_list = <<>>
  /\ idx = 0
  /\ all_data = <<>>
  /\ results = [items |-> Unset, users |-> Unset]
  /\ requests = <<>>
  /\ received = [items |-> <<>>, users |-> <<>>]
  /\ failed = [items |-> 0, users |-> 0]

WarehouseInit ==
  /\ attempts = 0
  /\ client = FALSE
  /\ creates = <<>>
  /\ jobs = <<>>
  /\ error = "none"
  /\ trace = <<>>
  /\ calls = <<>>

StudyInit ==
  /\ ids_in = <<>>
  /\ chunk_size = ChunkSize
  /\ yielded = <<>>
  /\ sale_terms = <<>>
  /\ item_out = <<>>

marketVars == <<items_data, currencies_data, all_data, results, requests, received, failed>>
warehouseVars == <<attempts, client, tables, creates, jobs, error, trace, calls>>
studyVars == <<ids_in, chunk_size, yielded, sale_terms, item_out>>

(***************************************************************************)
(* Batching study: one generator of chunk_ids run to exhaustion, on the    *)
(* string its callers build (get_items_ids / get_sellers_ids)              *)
(***************************************************************************)
StudyIds == {<<"M", "1">>, <<"M", "2">>, <<"7">>}

InitChunk ==
  /\ pc = "chunk_ids"
  /\ MarketInit /\ WarehouseInit /\ tables = {}
  /\ ids_in \in BoundedSeq(StudyIds, MaxIds)
  /\ chunk_size \in 1..MaxChunk
  /\ yielded = <<>> /\ sale_terms = <<>> /\ item_out = <<>>

\* the generator is created on ",".join(ids) and runs up to its loop
ChunkCall ==
  /\ pc = "chunk_ids"
  /\ ids_list' = split(join(ids_in))
  /\ idx' = 0
  /\ pc' = "chunk_loop"
  /\ UNCHANGED <<marketVars, warehouseVars, studyVars>>

ChunkYield ==
  /\ pc = "chunk_loop"
  /\ idx < Len(ids_list)
  /\ yielded' = Append(yielded, Slice(ids_list, idx, idx + chunk_size))
  /\ idx' = idx + chunk_size
  /\ UNCHANGED <<pc, ids_list, marketVars, warehouseVars, ids_in, chunk_size, sale_terms, item_out>>

ChunkStop ==
  /\ pc = "chunk_loop"
  /\ idx >= Len(ids_list)
  /\ pc' = "chunk_done"
  /\ UNCHANGED <<ids_list, idx, marketVars, warehouseVars, studyVars>>

NextChunk == ChunkCall \/ ChunkYield \/ ChunkStop

SpecChunk == InitChunk /\ [][NextChunk]_vars

(***************************************************************************)
(* Flattening study: get_items_data on one wire record                     *)
(***************************************************************************)
TermIds == {"WARRANTY_TYPE", "WARRANTY_TIME", "INVOICE"}
TermValues == {"90 days", "Manufacturer"}
TermEntries == [id : TermIds, value_name : TermValues]

StudyBody(terms) ==
  [category_id |-> "MLA1055", price |-> 1000, seller_id |-> 7, title |-> "phone",
   currency_id |-> "ARS",
   shipping |-> [free_shipping |-> TRUE, local_pick_up |-> FALSE,
                 logistic_type |-> "drop_off", mode |-> "me2"],
   sale_terms |-> terms]

InitFlatten ==
  /\ pc = "get_items_data"
  /\ MarketInit /\ WarehouseInit /\ tables = {}
  /\ ids_in = <<>> /\ chunk_size = ChunkSize /\ yielded = <<>>
  /\ sale_terms \in BoundedSeq(TermEntries, MaxTerms)
  /\ item_out = <<>>

FlattenItems ==
  /\ pc = "get_items_data"
  /\ item_out' = get_items_data(<<[body |-> StudyBody(sale_terms)]>>)
  /\ pc' = "flattened"
  /\ UNCHANGED <<ids_list, idx, marketVars, warehouseVars, ids_in, chunk_size, yielded, sale_terms>>

NextFlatten == FlattenItems

SpecFlatten == InitFlatten /\ [][NextFlatten]_vars

(***************************************************************************)
(* Marketplace (the responses the client consumes)                         *)
(***************************************************************************)
Statuses == {200, 500}

Kinds == {"items", "users"}

\* response.json() of the site search: n results, ids M1..Mn, seller ids 7..7n
SearchResults(n) == [j \in 1..n |-> [id |-> <<"M">> \o str(j), seller |-> [id |-> 7 * j]]]

CurrencyRate == [currency_base |-> "ARS", currency_quote |-> "USD", rate |-> 12]

ItemBody(id) ==
  [category_id |-> "MLA1055", price |-> 1000 + Len(id), seller_id |-> 7, title |-> id,
   currency_id |-> "ARS",
   shipping |-> [free_shipping |-> TRUE, local_pick_up |-> FALSE,
                 logistic_type |-> "drop_off", mode |-> "me2"],
   sale_terms |-> <<[id |-> "WARRANTY_TIME", value_name |-> "90 days"]>>]

SellerBody(id) ==
  [id |-> id, seller_reputation |-> [transactions |-> [total |-> 10 * Len(id)]]]

\* response.json() of a bulk lookup: one wrapper per identifier of the query
\* parameter ids, none for an empty identifier
ServerBulk(kind, ids_param) ==
  LET ids == SelectSeq(split(ids_param), LAMBDA id : id # <<>>)
  IN [j \in 1..Len(ids) |->
        [body |-> IF kind = "items" THEN ItemBody(ids[j]) ELSE SellerBody(ids[j])]]

(***************************************************************************)
(* main and the calls it makes                                             *)
(***************************************************************************)
Dict(d) == [status |-> "dict", rows |-> d]

MainSteps == <<"Item", "fetch_currency_conversion", "fetch_items", "fetch_seller",
               "DataBase", "create_currencies", "upload_currencies", "create_items",
               "upload_items", "create_sellers", "upload_sellers", "done">>

MainStepsCreateFirst == <<"Item", "fetch_currency_conversion", "fetch_items", "fetch_seller",
               "DataBase", "create_currencies", "create_items", "create_sellers",
               "upload_currencies", "upload_items", "upload_sellers", "done">>

MainNextCreateFirst(step) ==
  MainStepsCreateFirst[(CHOOSE j \in 1..Len(MainStepsCreateFirst) : MainStepsCreateFirst[j] = step) + 1]

\* the statement of main that follows a finished one
MainNext(step) == MainSteps[(CHOOSE j \in 1..Len(MainSteps) : MainSteps[j] = step) + 1]

FetchStep == [items |-> "fetch_items", users |-> "fetch_seller"]
LoopStep == [items |-> "fetch_items_loop", users |-> "fetch_seller_loop"]
CreateStep == [currencies |-> "create_currencies", items |-> "create_items", sellers |-> "create_sellers"]
UploadStep == [currencies |-> "upload_currencies", items |-> "upload_items", sellers |-> "upload_sellers"]

get_items_ids == join([j \in 1..Len(items_data.rows) |-> items_data.rows[j].id])

get_sellers_ids == join([j \in 1..Len(items_data.rows) |-> str(items_data.rows[j].seller.id)])

InitMain ==
  /\ pc = "Item"
  /\ MarketInit /\ WarehouseInit /\ StudyInit
  /\ tables \in SUBSET TableSet

\* Item(): the constructor runs fetch_data (the product search)
FetchData ==
  /\ pc = "Item"
  /\ \E status \in Statuses, n \in 0..MaxResults :
       items_data' = IF status # 200 THEN None ELSE Dict(SearchResults(n))
  /\ pc' = MainNext("Item")
  /\ trace' = Append(trace, "Item")
  /\ UNCHANGED <<currencies_data, ids_list, idx, all_data, results, requests, received, failed,
                 attempts, client, tables, creates, jobs, error, calls, studyVars>>

FetchCurrencyConversion ==
  /\ pc = "fetch_currency_conversion"
  /\ \E status \in Statuses :
       currencies_data' = IF status # 200 THEN None ELSE Dict(CurrencyRate)
  /\ pc' = MainNext("fetch_currency_conversion")
  /\ trace' = Append(trace, "fetch_currency_conversion")
  /\ UNCHANGED <<items_data, ids_list, idx, all_data, results, requests, received, failed,
                 attempts, client, tables, creates, jobs, error, calls, studyVars>>

\* fetch_items / fetch_seller up to the loop: the ids are built from
\* items_data["results"] (a TypeError when items_data is None) and the
\* generator is created
fetch_call(kind) ==
  /\ pc = FetchStep[kind]
  /\ IF items_data.status # "dict"
     THEN /\ error' = "TypeError"
          /\ pc' = "aborted"
          /\ trace' = Append(trace, FetchStep[kind])
          /\ UNCHANGED <<ids_list, idx, all_data>>
     ELSE /\ ids_list' = split(IF kind = "items" THEN get_items_ids ELSE get_sellers_ids)
          /\ idx' = 0
          /\ all_data' = <<>>
          /\ pc' = LoopStep[kind]
          /\ UNCHANGED <<error, trace>>
  /\ UNCHANGED <<items_data, currencies_data, results, requests, received, failed,
                 attempts, client, tables, creates, jobs, calls, studyVars>>

loop_body_partial(status, flat, all) ==
  IF status # 200
  THEN [returned |-> TRUE, value |-> [status |-> "list", rows |-> all], all |-> all]
  ELSE [returned |-> FALSE, value |-> None, all |-> all \o flat]

loop_body_prepend(status, flat, all) ==
  IF status # 200
  THEN [returned |-> TRUE, value |-> None, all |-> all]
  ELSE [returned |-> FALSE, value |-> None, all |-> flat \o all]

\* the loop body after the GET: status check, flatten, extend
loop_body(status, flat, all) ==
  IF status # 200
  THEN [returned |-> TRUE, value |-> None, all |-> all]
  ELSE [returned |-> FALSE, value |-> None, all |-> all \o flat]

\* one iteration of the loop of fetch_items / fetch_seller: one GET
fetch_batch(kind) ==
  /\ pc = LoopStep[kind]
  /\ idx < Len(ids_list)
  /\ \E status \in Statuses :
       LET id_chunk == Slice(ids_list, idx, idx + ChunkSize)
           ids_param == join(id_chunk)
           data == IF status = 200 THEN ServerBulk(kind, ids_param) ELSE <<>>
           flat == IF kind = "items" THEN get_items_data(data) ELSE get_sellers_data(data)
           r == loop_body(status, flat, all_data)
       IN /\ requests' = Append(requests, [endpoint |-> kind, ids |-> ids_param])
          /\ received' = [received EXCEPT ![kind] = @ \o data]
          /\ all_data' = r.all
          /\ IF r.returned
             THEN /\ results' = [results EXCEPT ![kind] = r.value]
                  /\ failed' = [failed EXCEPT ![kind] = (idx \div ChunkSize) + 1]
                  /\ pc' = MainNext(FetchStep[kind])
                  /\ trace' = Append(trace, FetchStep[kind])
                  /\ idx' = idx
             ELSE /\ idx' = idx + ChunkSize
                  /\ UNCHANGED <<results, failed, pc, trace>>
  /\ UNCHANGED <<items_data, currencies_data, ids_list,
                 attempts, client, tables, creates, jobs, error, calls, studyVars>>

\* the generator is exhausted: return all_items_data / all_sellers_data
fetch_return(kind) ==
  /\ pc = LoopStep[kind]
  /\ idx >= Len(ids_list)
  /\ results' = [results EXCEPT ![kind] = List(all_data)]
  /\ pc' = MainNext(FetchStep[kind])
  /\ trace' = Append(trace, FetchStep[kind])
  /\ UNCHANGED <<items_data, currencies_data, ids_list, idx, all_data, requests, received, failed,
                 attempts, client, tables, creates, jobs, error, calls, studyVars>>

FetchItemsCall == fetch_call("items")
FetchItemsBatch == fetch_batch("items")
FetchItemsReturn == fetch_return("items")
FetchSellerCall == fetch_call("users")
FetchSellerBatch == fetch_batch("users")
FetchSellerReturn == fetch_return("users")

\* DataBase(): one iteration of the loop of _create_bigquery_client
CreateBigqueryClient ==
  /\ pc = "DataBase"
  /\ attempts < max_retries + 1
  /\ attempts' = attempts + 1
  /\ \E ok \in BOOLEAN :
       IF ok
       THEN /\ client' = TRUE
            /\ pc' = MainNext("DataBase")
            /\ trace' = Append(trace, "DataBase")
            /\ error' = error
       ELSE IF attempts < max_retries
       THEN UNCHANGED <<client, pc, trace, error>>
       ELSE /\ error' = "ConnectionError"
            /\ pc' = "aborted"
            /\ trace' = Append(trace, "DataBase")
            /\ client' = client
  /\ UNCHANGED <<marketVars, ids_list, idx, tables, creates, jobs, calls, studyVars>>

\* get_table raises or not; on any exception create_table is sent, which the
\* warehouse refuses with Conflict when the table exists
create_table_if_not_exists(table_name) ==
  \E check \in {"found", "NotFound", "error"} :
    /\ check = "found" => table_name \in tables
    /\ check = "NotFound" => table_name \notin tables
    /\ IF check = "found"
       THEN /\ error' = "none"
            /\ UNCHANGED <<tables, creates>>
       ELSE /\ creates' = Append(creates, table_name)
            /\ IF table_name \in tables
               THEN error' = "Conflict" /\ tables' = tables
               ELSE error' = "none" /\ tables' = tables \cup {table_name}

upload_dataframe_swallow(rows, table_name) ==
  \E state \in {"DONE", "FAILED"} :
    /\ jobs' = Append(jobs, [table |-> table_name, rows |-> rows, state |-> state])
    /\ error' = "none"

\* the load job is sent and job.result() waits for it, raising when it failed
upload_dataframe_to_bigquery(rows, table_name) ==
  \E state \in {"DONE", "FAILED"} :
    /\ jobs' = Append(jobs, [table |-> table_name, rows |-> rows, state |-> state])
    /\ error' = IF state = "FAILED" THEN "LoadError" ELSE "none"

\* number of rows of the frames main builds: pd.DataFrame([currencies_data]),
\* pd.DataFrame(items_data), pd.DataFrame(sellers_data)
FrameRows(table_name) ==
  IF table_name = "currencies" THEN 1
  ELSE LET r == IF table_name = "items" THEN results.items ELSE results.users
       IN IF r.status = "list" THEN Len(r.rows) ELSE 0

CreateTable(t) ==
  /\ pc = CreateStep[t]
  /\ create_table_if_not_exists(t)
  /\ pc' = IF error' = "none" THEN MainNext(CreateStep[t]) ELSE "aborted"
  /\ trace' = Append(trace, CreateStep[t])
  /\ UNCHANGED <<marketVars, ids_list, idx, attempts, client, jobs, calls, studyVars>>

Upload(t) ==
  /\ pc = UploadStep[t]
  /\ upload_dataframe_to_bigquery(FrameRows(t), t)
  /\ pc' = IF error' = "none" THEN MainNext(UploadStep[t]) ELSE "aborted"
  /\ trace' = Append(trace, UploadStep[t])
  /\ UNCHANGED <<marketVars, ids_list, idx, attempts, client, tables, creates, calls, studyVars>>

CreateTables == \E t \in TableSet : CreateTable(t)
Uploads == \E t \in TableSet : Upload(t)

Next ==
  \/ FetchData
  \/ FetchCurrencyConversion
  \/ FetchItemsCall
  \/ FetchItemsBatch
  \/ FetchItemsReturn
  \/ FetchSellerCall
  \/ FetchSellerBatch
  \/ FetchSellerReturn
  \/ CreateBigqueryClient
  \/ CreateTables
  \/ Uploads

Spec == InitMain /\ [][Next]_vars

(***************************************************************************)
(* Gateway study: create_table_if_not_exists called repeatedly on one      *)
(* warehouse                                                               *)
(***************************************************************************)
InitGateway ==
  /\ pc = "gateway"
  /\ MarketInit /\ WarehouseInit /\ StudyInit
  /\ tables \in SUBSET TableSet

GatewayCall ==
  /\ pc = "gateway"
  /\ Len(calls) < MaxCalls
  /\ \E t \in TableSet :
       /\ create_table_if_not_exists(t)
       /\ calls' = Append(calls, [table |-> t, created |-> Len(creates') - Len(creates),
                                  error |-> error'])
  /\ UNCHANGED <<pc, marketVars, ids_list, idx, attempts, client, jobs, trace, studyVars>>

NextGateway == GatewayCall

SpecGateway == InitGateway /\ [][NextGateway]_vars

(***************************************************************************)
(* C1 (as stated): chunks of a finished generator concatenate to the input *)
(* sequence, all but the last have length k, the last has length 1..k, and *)
(* there are ceil(len/k) of them                                           *)
(***************************************************************************)
C1_Batching ==
  pc = "chunk_done" =>
    /\ Concat(yielded) = ids_in
    /\ Len(yielded) = Ceil(Len(ids_in), chunk_size)
    /\ \A j \in 1..(Len(yielded) - 1) : Len(yielded[j]) = chunk_size
    /\ Len(yielded) > 0 =>
         /\ Len(yielded[Len(yielded)]) >= 1
         /\ Len(yielded[Len(yielded)]) <= chunk_size

(***************************************************************************)
(* C7: warranty fields of the flattened record                             *)
(***************************************************************************)
TermIdxs(wid) == {j \in 1..Len(sale_terms) : sale_terms[j].id = wid}
FirstIdx(wid) == CHOOSE j \in TermIdxs(wid) : \A h \in TermIdxs(wid) : j <= h
LastIdx(wid) == CHOOSE j \in TermIdxs(wid) : \A h \in TermIdxs(wid) : j >= h

WarrantyFieldIs(rec, field, wid, pick) ==
  IF TermIdxs(wid) = {} THEN field \notin DOMAIN rec
  ELSE field \in DOMAIN rec /\ rec[field] = sale_terms[pick].value_name

\* C7 (as stated): each warranty field is the value_name of the FIRST entry
\* with its id, and is unset when no entry has that id
C7_FirstEntry ==
  pc = "flattened" =>
    /\ Len(item_out) = 1
    /\ WarrantyFieldIs(item_out[1], "warranty_type", "WARRANTY_TYPE", FirstIdx("WARRANTY_TYPE"))
    /\ WarrantyFieldIs(item_out[1], "warranty_time", "WARRANTY_TIME", FirstIdx("WARRANTY_TIME"))

\* C7 (amended): each warranty field is the value_name of the LAST entry
\* with its id, and is unset when no entry has that id
C7_LastEntry ==
  pc = "flattened" =>
    /\ Len(item_out) = 1
    /\ WarrantyFieldIs(item_out[1], "warranty_type", "WARRANTY_TYPE", LastIdx("WARRANTY_TYPE"))
    /\ WarrantyFieldIs(item_out[1], "warranty_time", "WARRANTY_TIME", LastIdx("WARRANTY_TIME"))

\* a record flattened from sale_terms that repeat an id with different values
C7_Witness ==
  /\ pc = "flattened"
  /\ \E j, h \in TermIdxs("WARRANTY_TYPE") : j < h /\ sale_terms[j].value_name # sale_terms[h].value_name
  /\ TermIdxs("WARRANTY_TIME") = {}
  /\ "warranty_type" \in DOMAIN item_out[1]

(***************************************************************************)
(* Claims about the pipeline (Spec) and the gateway (SpecGateway)          *)
(***************************************************************************)
TableOf == [items |-> "items", users |-> "sellers"]
TableIdx(t) == CHOOSE j \in 1..Len(TableNames) : TableNames[j] = t
RequestsOf(kind) == SelectSeq(requests, LAMBDA r : r.endpoint = kind)
Returned(kind) == results[kind].status # "unset"

\* C2: once a batch request of a bulk fetch got a non-200, the bulk fetch
\* returns None: no record of the earlier batches reaches the caller, its
\* frame or its load job
C2_FailFast ==
  \A kind \in Kinds :
    failed[kind] # 0 =>
      /\ results[kind] = None
      /\ FrameRows(TableOf[kind]) = 0
      /\ \A j \in 1..Len(jobs) : jobs[j].table = TableOf[kind] => jobs[j].rows = 0

\* batch 2 of the items fetch and batch 3 of the sellers fetch failed after
\* the earlier batches had been received and flattened
C2_Witness ==
  /\ failed.items = 2 /\ Len(received.items) = ChunkSize /\ results.items = None
  /\ failed.users = 3 /\ Len(received.users) = 2 * ChunkSize /\ results.users = None

\* C3 (as stated): a run that reaches DONE did currency fetch, product
\* search, items fetch, sellers fetch, all three ensureTable, then the three
\* loads, in this order
C3_SpecOrder ==
  pc = "done" =>
    SelectSeq(trace, LAMBDA st : st # "DataBase") =
      <<"fetch_currency_conversion", "Item", "fetch_items", "fetch_seller",
        "create_currencies", "create_items", "create_sellers",
        "upload_currencies", "upload_items", "upload_sellers">>

CodeOrder == <<"Item", "fetch_currency_conversion", "fetch_items", "fetch_seller", "DataBase",
               "create_currencies", "upload_currencies", "create_items", "upload_items",
               "create_sellers", "upload_sellers">>

\* C3 (amended): the steps of every run are a prefix of: product search,
\* currency fetch, items fetch, sellers fetch, warehouse connection, then
\* ensure and load of currencies, ensure and load of items, ensure and load
\* of sellers; a run that reaches DONE did all of them
C3_CodeOrder ==
  /\ Len(trace) <= Len(CodeOrder)
  /\ trace = SubSeq(CodeOrder, 1, Len(trace))
  /\ pc = "done" => trace = CodeOrder

C3_Witness == pc = "done" /\ Len(jobs) = 3 /\ client

\* C4 (as stated): only a warehouse failure (connection, table creation or
\* load job) aborts a run; a non-200 of a fetch step never does
C4_FetchNeverHalts ==
  pc = "aborted" => error \in {"ConnectionError", "Conflict", "LoadError"}

\* C5: at most 4 client constructions; none after a success; after 4
\* failures the run is aborted with a connection error, and no table is
\* created and no data loaded without a client
C5_ConnectInv ==
  /\ attempts <= 4
  /\ (attempts = 4 /\ ~client) => (error = "ConnectionError" /\ pc = "aborted")
  /\ error = "ConnectionError" => (attempts = 4 /\ ~client)
  /\ ~client => (creates = <<>> /\ jobs = <<>> /\ pc # "done")

C5_Connect == [](C5_ConnectInv) /\ [][client => attempts' = attempts]_vars

C5_Witness ==
  /\ attempts = 4 /\ ~client /\ error = "ConnectionError" /\ pc = "aborted"
  /\ results.users.status = "list"

\* C8 (as stated): after a search that returned an empty result list, both
\* bulk fetches have sent no request and returned an empty list
C8_EmptySearch ==
  (items_data = Dict(<<>>) /\ Returned("items") /\ Returned("users")) =>
    /\ requests = <<>>
    /\ results.items = List(<<>>)
    /\ results.users = List(<<>>)

ExpectedIds(kind) ==
  [j \in 1..Len(items_data.rows) |->
     IF kind = "items" THEN items_data.rows[j].id ELSE str(items_data.rows[j].seller.id)]

\* C9: a bulk fetch over n >= 1 ids whose batches all got 200 has sent
\* ceil(n/20) requests, in batch order, each with at most 20 ids, and returns
\* the flattened wrapper bodies in the order they were received
C9_AllBatchesOk ==
  \A kind \in Kinds :
    (results[kind].status = "list" /\ Len(items_data.rows) >= 1) =>
      LET reqs == RequestsOf(kind)
          n == Len(items_data.rows)
      IN /\ Len(reqs) = Ceil(n, 20)
         /\ \A j \in 1..Len(reqs) : Len(split(reqs[j].ids)) <= 20
         /\ Concat([j \in 1..Len(reqs) |-> split(reqs[j].ids)]) = ExpectedIds(kind)
         /\ Len(received[kind]) = n
         /\ results[kind].rows =
              (IF kind = "items" THEN get_items_data(received[kind])
               ELSE get_sellers_data(received[kind]))

C9_Witness ==
  /\ Len(items_data.rows) = 2 * ChunkSize + 1
  /\ results.items.status = "list" /\ Len(RequestsOf("items")) = 3
  /\ results.users.status = "list" /\ Len(RequestsOf("users")) = 3
  /\ Len(results.items.rows) = 2 * ChunkSize + 1

\* C10: a failed load job ends the run: it is the last job, the run is
\* aborted with the load error at that step, no later table was created, and
\* the jobs of the earlier tables stay done
C10_LoadFailure ==
  \A j \in 1..Len(jobs) :
    jobs[j].state = "FAILED" =>
      /\ j = Len(jobs)
      /\ error = "LoadError"
      /\ pc = "aborted"
      /\ trace[Len(trace)] = UploadStep[jobs[j].table]
      /\ \A c \in 1..Len(creates) : TableIdx(creates[c]) <= TableIdx(jobs[j].table)
      /\ \A h \in 1..(j - 1) : jobs[h].state = "DONE" /\ jobs[h].table = TableNames[h]

C10_Witness ==
  /\ Len(jobs) = 2 /\ jobs[1].state = "DONE" /\ jobs[1].table = "currencies"
  /\ jobs[2].state = "FAILED" /\ jobs[2].table = "items" /\ jobs[2].rows > 0
  /\ pc = "aborted"

\* C6 (as stated): of two calls in a row for the same table, the second ends
\* without error and the two send at most one create_table between them
C6_Idempotent ==
  \A j \in 1..(Len(calls) - 1) :
    calls[j].table = calls[j + 1].table =>
      /\ calls[j + 1].error = "none"
      /\ calls[j].created + calls[j + 1].created <= 1

=============================================================================
